---- MODULE Spec2Model ----
(***************************************************************************)
(* Project/board/task backend of src/src: the FastAPI handlers of main.py  *)
(* over the Repository of repository.py and the tables of models.py.       *)
(*                                                                         *)
(* The store is the committed content of the relational database.  Every   *)
(* handler is one action: it reads the store, decides, writes and leaves   *)
(* its HTTP outcome in resp.  An exception no handler catches (a storage   *)
(* IntegrityError, a response that fails validation) is status 500.        *)
(*                                                                         *)
(* repository.py and fill_database.py use a Board table and Task.board_id  *)
(* that src/src/models.py (the older schema) does not declare; those two   *)
(* are taken from section 3 of the specification (Board belongs to one     *)
(* Project, Task to one Board, both cascade-deleted with their parent).    *)
(***************************************************************************)
EXTENDS Integers, FiniteSets, Sequences, TLC

\* ------------------------------------------------------------------ bounds
MaxUsers == 2
MaxProjects == 2
MaxBoards == 2
MaxTasks == 1
\* rows the project_members table may hold
MaxMembers == 2
\* rows that may be inserted into the projects, boards and tasks tables together
MaxRows == 3
\* requests that may be in the middle of their handler at once
MaxRequests == 2

\* ------------------------------------------------------- program constants
\* models.py MemberRole
OWNER == "owner"
MEMBER == "member"
NOT_ACCESSABLE_MEMBER == "not_accessable_member"
MemberRole == {OWNER, MEMBER, NOT_ACCESSABLE_MEMBER}

\* models.py ProjectStatus / schemas.py ProjectBase.status default
ACTIVE == "active"
PAUSED == "paused"
COMPLETED == "completed"
ProjectStatus == {ACTIVE, COMPLETED, PAUSED}

\* models.py TaskStatus / schemas.py TaskBase.status default
TODO == "todo"
DONE == "done"

\* models.py TaskPriority / schemas.py TaskBase.priority default
MEDIUM == "medium"
HIGH == "high"

\* Python None, and (in resp only) an assignee the request does not supply
None == -1
Unset == -2

\* Python truthiness of an Optional[int]: None and 0 are falsy
Truthy(x) == x # None /\ x # 0

\* ------------------------------------------------------------ input ranges
UserIds == 1..MaxUsers
\* ids a request path may name: every id the sequences can hand out
ProjectIds == 1..MaxProjects
BoardIds == 1..MaxBoards
TaskIds == 1..MaxTasks
Emails == 1..MaxUsers
Usernames == 1..MaxUsers
ProjectNames == {"P"}
ProjectStatusInputs == {ACTIVE, PAUSED}
BoardTitles == {"Backlog", "Done"}
TaskStatusInputs == {TODO, DONE}
\* assignee ids a request body may carry: None, 0, every user id, and one id
\* no user will ever have
AssigneeInputs == {None} \cup (0..(MaxUsers + 1))

VARIABLES
    users,          \* users table: id -> [username, email]
    projects,       \* projects table: id -> [name, status]
    members,        \* project_members table: set of [project_id, user_id, role]
    boards,         \* boards table: id -> [project_id, title]
    tasks,          \* tasks table: id -> [board_id, assignee_id, status, priority]
    nextUserId,     \* users.id sequence
    nextProjectId,  \* projects.id sequence
    nextBoardId,    \* boards.id sequence
    nextTaskId,     \* tasks.id sequence
    resp,           \* the last request and its HTTP outcome
    inflight        \* requests in the middle of their handler: id -> request

store == <<users, projects, members, boards, tasks>>
seqs == <<nextUserId, nextProjectId, nextBoardId, nextTaskId>>
vars == <<users, projects, members, boards, tasks,
          nextUserId, nextProjectId, nextBoardId, nextTaskId, resp, inflight>>

\* the empty table
EmptyTable == [x \in {} |-> 0]

\* a table with row id set to row (insert or update)
Put(table, id, row) == [x \in DOMAIN table \cup {id} |-> IF x = id THEN row ELSE table[x]]

\* a table without the rows whose id is in ids
Drop(table, ids) == [x \in DOMAIN table \ ids |-> table[x]]

\* the request/outcome record left by a handler
Response(op, status, user_id, project_id, board_id, task_id, assignee_id) ==
    [op |-> op, status |-> status, user_id |-> user_id, project_id |-> project_id,
     board_id |-> board_id, task_id |-> task_id, assignee_id |-> assignee_id]

Init ==
    /\ users = EmptyTable
    /\ projects = EmptyTable
    /\ members = {}
    /\ boards = EmptyTable
    /\ tasks = EmptyTable
    /\ nextUserId = 1
    /\ nextProjectId = 1
    /\ nextBoardId = 1
    /\ nextTaskId = 1
    /\ resp = [op |-> "none", status |-> 0, user_id |-> 0, project_id |-> 0,
               board_id |-> 0, task_id |-> 0, assignee_id |-> Unset]
    /\ inflight = EmptyTable

\* ------------------------------------------------------------- Repository
\* Repository.get_user_by_email: the users with this email (first() of them)
get_user_by_email(email) == {u \in DOMAIN users : users[u].email = email}

\* Repository.get_user_by_id
get_user_by_id(user_id) == user_id \in DOMAIN users

\* Repository.get_project_with_details: whether the project row exists
get_project_with_details(project_id) == project_id \in DOMAIN projects

\* Project.members of the loaded project
project_members(project_id) == {m \in members : m.project_id = project_id}

\* Repository.get_board_by_id
get_board_by_id(board_id) == board_id \in DOMAIN boards

\* Repository.get_task_by_id
get_task_by_id(task_id) == task_id \in DOMAIN tasks

\* utils.hash_password: a one-way image of the password, never the password
hash_password(password) == <<"bcrypt", password>>

\* verify_password that accepts every password
verify_password_any_password(plain_password, hashed_password) == TRUE

\* utils.verify_password: the hash is the image of this password
verify_password(plain_password, hashed_password) ==
    hashed_password = hash_password(plain_password)

\* Repository.create_user: the users table after the insert; the unique
\* constraint on username (models.py) rejects the row with an IntegrityError
create_user_violates_unique(username, email) ==
    \E u \in DOMAIN users : users[u].username = username \/ users[u].email = email

\* ------------------------------------------------- authorization decisions
\* the owner check without its role filter: any membership row passes
not_enough_permissions_any_role(project_id, user_id) ==
    \/ ~get_project_with_details(project_id)
    \/ user_id \notin {m.user_id : m \in project_members(project_id)}

\* main.py "current_user.id not in [member.user_id for member in
\* project.members if member.role == MemberRole.OWNER]", with "not project"
not_enough_permissions(project_id, user_id) ==
    \/ ~get_project_with_details(project_id)
    \/ user_id \notin {m.user_id : m \in {x \in project_members(project_id) : x.role = OWNER}}

\* main.py "membership = next((m for m in project.members if m.user_id ==
\* current_user.id), None)": the caller's rows in the project
membership(project_id, user_id) ==
    {m \in project_members(project_id) : m.user_id = user_id}

\* main.py "not membership or membership.role not in [OWNER, MEMBER]"
must_be_owner_or_member(project_id, user_id) ==
    \/ membership(project_id, user_id) = {}
    \/ (CHOOSE m \in membership(project_id, user_id) : TRUE).role \notin {OWNER, MEMBER}

\* ---------------------------------------------------------------- handlers
\* no request is being answered: requests are served one at a time
NoResponse == Response("none", 0, 0, 0, 0, 0, Unset)
accepting == resp = NoResponse

\* the server sends the handler's outcome and is ready for the next request
send_response ==
    /\ ~accepting
    /\ UNCHANGED inflight
    /\ resp' = NoResponse
    /\ UNCHANGED <<store, seqs>>

\* a response that carries every column of the users row
UserRead_every_column(user_id, row) == row @@ [id |-> user_id]

\* schemas.UserRead built from a users row (from_attributes): the declared
\* fields id, username and email (created_at is not part of the modelled rows)
UserRead(user_id, row) ==
    [f \in {"username", "email"} |-> row[f]] @@ [id |-> user_id]

\* POST /register
register_user(username, email, password) ==
    /\ accepting
    /\ UNCHANGED inflight
    /\ IF get_user_by_email(email) # {}
       THEN /\ resp' = Response("register_user", 409, 0, 0, 0, 0, Unset)
            /\ UNCHANGED <<store, seqs>>
       ELSE /\ nextUserId <= MaxUsers
            /\ nextUserId' = nextUserId + 1
            /\ IF create_user_violates_unique(username, email)
               THEN /\ resp' = Response("register_user", 500, 0, 0, 0, 0, Unset)
                    /\ UNCHANGED users
               ELSE /\ users' = Put(users, nextUserId,
                                    [username |-> username, email |-> email,
                                     password_hash |-> hash_password(password)])
                    /\ resp' = Response("register_user", 201, nextUserId, 0, 0, 0, Unset)
            /\ UNCHANGED <<projects, members, boards, tasks,
                           nextProjectId, nextBoardId, nextTaskId>>

\* POST /auth/login (the form's username field carries the email)
login_for_access_token(email, password) ==
    /\ accepting
    /\ UNCHANGED inflight
    /\ resp' = IF \/ get_user_by_email(email) = {}
                  \/ ~verify_password(password,
                         users[CHOOSE u \in get_user_by_email(email) : TRUE].password_hash)
               THEN Response("login_for_access_token", 401, 0, 0, 0, 0, Unset)
               ELSE Response("login_for_access_token", 200,
                             CHOOSE u \in get_user_by_email(email) : TRUE, 0, 0, 0, Unset)
    /\ UNCHANGED <<store, seqs>>

\* create_project giving the creator the default role of the column
create_project_default_role(creator_id, data, fault) ==
    IF fault = "none"
    THEN [projects |-> Put(projects, nextProjectId, data),
          members |-> members \cup {[project_id |-> nextProjectId,
                                     user_id |-> creator_id, role |-> MEMBER]}]
    ELSE [projects |-> projects, members |-> members]

\* create_project committing the Project row on its own, before the membership
create_project_two_commits(creator_id, data, fault) ==
    IF fault = "none"
    THEN [projects |-> Put(projects, nextProjectId, data),
          members |-> members \cup {[project_id |-> nextProjectId,
                                     user_id |-> creator_id, role |-> OWNER]}]
    ELSE IF fault = "member_insert"
    THEN [projects |-> Put(projects, nextProjectId, data), members |-> members]
    ELSE [projects |-> projects, members |-> members]

\* Repository.create_project: the rows committed by the session.begin() block.
\* fault names the statement that raises inside the block ("none": neither);
\* an exception leaves the block by rollback, so nothing is committed.
create_project(creator_id, data, fault) ==
    IF fault = "none"
    THEN [projects |-> Put(projects, nextProjectId, data),
          members |-> members \cup {[project_id |-> nextProjectId,
                                     user_id |-> creator_id, role |-> OWNER]}]
    ELSE [projects |-> projects, members |-> members]

\* POST /projects
create_new_project(user_id, data, fault) ==
    /\ accepting
    /\ UNCHANGED inflight
    /\ nextProjectId <= MaxProjects
    /\ Cardinality(members) < MaxMembers
    /\ projects' = create_project(user_id, data, fault).projects
    /\ members' = create_project(user_id, data, fault).members
    \* the flush of the Project row draws the id; only a fault before it keeps it
    /\ nextProjectId' = IF fault = "project_insert" THEN nextProjectId
                        ELSE nextProjectId + 1
    /\ resp' = IF fault = "none"
               THEN Response("create_new_project", 201, user_id, nextProjectId, 0, 0, Unset)
               \* an IntegrityError/DBAPIError nothing catches; project_id is the
               \* id the flush drew before the fault, 0 when it drew none
               ELSE Response("create_new_project", 500, user_id,
                             IF fault = "member_insert" THEN nextProjectId ELSE 0,
                             0, 0, Unset)
    /\ UNCHANGED <<users, boards, tasks, nextUserId, nextBoardId, nextTaskId>>

\* model_dump() without exclude_unset: a body that omits assignee_id carries
\* its default, None, and the UPDATE writes it
values_without_exclude_unset(row, update_data) ==
    [f \in DOMAIN row |-> IF f \in DOMAIN update_data THEN update_data[f]
                          ELSE IF f = "assignee_id" THEN None ELSE row[f]]

\* data.model_dump(exclude_unset=True) is a dict of the supplied fields only:
\* a request body is a record whose DOMAIN is the set of fields it supplies.
\* UPDATE ... VALUES(**update_data): the row with the supplied fields replaced
values(row, update_data) ==
    [f \in DOMAIN row |-> IF f \in DOMAIN update_data THEN update_data[f] ELSE row[f]]

\* "if not update_data"
no_update_data(update_data) == DOMAIN update_data = {}

\* GET /projects/{project_id}
get_project_details(user_id, project_id) ==
    /\ accepting
    /\ UNCHANGED inflight
    /\ resp' = Response("get_project_details",
                        IF ~get_project_with_details(project_id) THEN 404
                        ELSE IF must_be_owner_or_member(project_id, user_id) THEN 403
                        ELSE 200,
                        user_id, project_id, 0, 0, Unset)
    /\ UNCHANGED <<store, seqs>>

\* Repository.update_project: the projects table after the statement
update_project(project_id, data) ==
    IF no_update_data(data) \/ project_id \notin DOMAIN projects
    THEN projects
    ELSE Put(projects, project_id, values(projects[project_id], data))

\* PATCH /projects/{project_id}
update_project_partial(user_id, project_id, data) ==
    /\ accepting
    /\ UNCHANGED inflight
    /\ IF not_enough_permissions(project_id, user_id)
       THEN /\ resp' = Response("update_project_partial", 403, user_id, project_id, 0, 0, Unset)
            /\ UNCHANGED projects
       ELSE /\ projects' = update_project(project_id, data)
            \* Repository.update_project returns None for an empty update
            /\ resp' = Response("update_project_partial",
                                IF no_update_data(data) THEN 404 ELSE 200,
                                user_id, project_id, 0, 0, Unset)
    /\ UNCHANGED <<users, members, boards, tasks, seqs>>

\* ON DELETE CASCADE of boards.project_id: the boards of the deleted projects
boards_of(project_ids) == {b \in DOMAIN boards : boards[b].project_id \in project_ids}

\* ON DELETE CASCADE of tasks.board_id: the tasks of the deleted boards
tasks_of(board_ids) == {t \in DOMAIN tasks : tasks[t].board_id \in board_ids}

\* the foreign key of project_members.project_id without its ON DELETE CASCADE
members_after_project_delete_no_cascade(project_id) == members

\* ON DELETE CASCADE of project_members.project_id (models.py)
members_after_project_delete(project_id) ==
    {m \in members : m.project_id # project_id}

\* delete_project_by_id guarded like the board endpoints (owner or member)
delete_project_by_id_owner_or_member(user_id, project_id) ==
    /\ accepting
    /\ UNCHANGED inflight
    /\ IF ~get_project_with_details(project_id) \/ must_be_owner_or_member(project_id, user_id)
       THEN /\ resp' = Response("delete_project_by_id", 403, user_id, project_id, 0, 0, Unset)
            /\ UNCHANGED <<projects, members, boards, tasks>>
       ELSE /\ projects' = Drop(projects, {project_id})
            /\ members' = members_after_project_delete(project_id)
            /\ boards' = Drop(boards, boards_of({project_id}))
            /\ tasks' = Drop(tasks, tasks_of(boards_of({project_id})))
            /\ resp' = Response("delete_project_by_id", 204, user_id, project_id, 0, 0, Unset)
    /\ UNCHANGED <<users, seqs>>

\* DELETE /projects/{project_id}
delete_project_by_id(user_id, project_id) ==
    /\ accepting
    /\ UNCHANGED inflight
    /\ IF not_enough_permissions(project_id, user_id)
       THEN /\ resp' = Response("delete_project_by_id", 403, user_id, project_id, 0, 0, Unset)
            /\ UNCHANGED <<projects, members, boards, tasks>>
       ELSE /\ projects' = Drop(projects, {project_id})
            /\ members' = members_after_project_delete(project_id)
            /\ boards' = Drop(boards, boards_of({project_id}))
            /\ tasks' = Drop(tasks, tasks_of(boards_of({project_id})))
            /\ resp' = Response("delete_project_by_id", 204, user_id, project_id, 0, 0, Unset)
    /\ UNCHANGED <<users, seqs>>

\* GET /projects/{project_id}/members
get_project_members_list(user_id, project_id) ==
    /\ accepting
    /\ UNCHANGED inflight
    /\ resp' = Response("get_project_members_list",
                        IF not_enough_permissions(project_id, user_id) THEN 403 ELSE 200,
                        user_id, project_id, 0, 0, Unset)
    /\ UNCHANGED <<store, seqs>>

\* project_members without its primary key: no insert ever conflicts
project_member_exists_no_primary_key(project_id, user_id) == FALSE

\* PrimaryKeyConstraint("project_id", "user_id") of project_members (models.py)
project_member_exists(project_id, user_id) ==
    \E m \in members : m.project_id = project_id /\ m.user_id = user_id

\* POST /{project_id}/members
add_project_member(user_id, project_id, member_user_id, role) ==
    /\ accepting
    /\ UNCHANGED inflight
    /\ IF not_enough_permissions(project_id, user_id)
       THEN /\ resp' = Response("add_project_member", 403, user_id, project_id, 0, 0, Unset)
            /\ UNCHANGED members
       ELSE IF ~get_user_by_id(member_user_id)
       THEN /\ resp' = Response("add_project_member", 404, user_id, project_id, 0, 0, Unset)
            /\ UNCHANGED members
       ELSE IF project_member_exists(project_id, member_user_id)
       \* the insert raises IntegrityError, which nothing catches
       THEN /\ resp' = Response("add_project_member", 500, user_id, project_id, 0, 0, Unset)
            /\ UNCHANGED members
       ELSE /\ Cardinality(members) < MaxMembers
            /\ members' = members \cup {[project_id |-> project_id,
                                         user_id |-> member_user_id, role |-> role]}
            /\ resp' = Response("add_project_member", 201, user_id, project_id, 0, 0, Unset)
    /\ UNCHANGED <<users, projects, boards, tasks, seqs>>

\* remove_project_member whose DELETE filters on the user alone
remove_project_member_of_every_project(project_id, user_id) ==
    {m \in members : m.user_id # user_id}

\* Repository.remove_project_member: the rows the DELETE leaves
remove_project_member(project_id, user_id) ==
    {m \in members : ~(m.project_id = project_id /\ m.user_id = user_id)}

\* DELETE /projects/{project_id}/members/{user_id}
remove_member_from_project(user_id, project_id, member_user_id) ==
    /\ accepting
    /\ UNCHANGED inflight
    /\ IF not_enough_permissions(project_id, user_id)
       THEN /\ resp' = Response("remove_member_from_project", 403, user_id, project_id, 0, 0, Unset)
            /\ UNCHANGED members
       ELSE /\ members' = remove_project_member(project_id, member_user_id)
            /\ resp' = Response("remove_member_from_project",
                                IF project_member_exists(project_id, member_user_id)
                                THEN 204 ELSE 404,
                                user_id, project_id, 0, 0, Unset)
    /\ UNCHANGED <<users, projects, boards, tasks, seqs>>

\* Repository.create_board "existing_board_query": a board of this project
\* already has the title
board_title_exists(project_id, title) ==
    \E b \in DOMAIN boards : boards[b].project_id = project_id /\ boards[b].title = title

\* POST /projects/{project_id}/boards
create_new_board_in_project(user_id, project_id, data) ==
    /\ accepting
    /\ UNCHANGED inflight
    /\ IF ~get_project_with_details(project_id)
       THEN /\ resp' = Response("create_new_board_in_project", 404, user_id, project_id, 0, 0, Unset)
            /\ UNCHANGED <<boards, nextBoardId>>
       ELSE IF must_be_owner_or_member(project_id, user_id)
       THEN /\ resp' = Response("create_new_board_in_project", 403, user_id, project_id, 0, 0, Unset)
            /\ UNCHANGED <<boards, nextBoardId>>
       ELSE IF board_title_exists(project_id, data.title)
       \* Repository.create_board returns None, which the response model rejects
       THEN /\ resp' = Response("create_new_board_in_project", 500, user_id, project_id, 0, 0, Unset)
            /\ UNCHANGED <<boards, nextBoardId>>
       ELSE /\ nextBoardId <= MaxBoards
            /\ boards' = Put(boards, nextBoardId,
                             [project_id |-> project_id, title |-> data.title,
                              position |-> data.position])
            /\ nextBoardId' = nextBoardId + 1
            /\ resp' = Response("create_new_board_in_project", 201, user_id, project_id,
                                nextBoardId, 0, Unset)
    /\ UNCHANGED <<users, projects, members, tasks, nextUserId, nextProjectId, nextTaskId>>

\* update_board that writes the values under the id whether or not a row has it
update_board_upsert(board_id, data) ==
    IF no_update_data(data) THEN boards
    ELSE Put(boards, board_id,
             IF board_id \in DOMAIN boards THEN values(boards[board_id], data)
             ELSE data @@ [project_id |-> 0, title |-> "Backlog", position |-> 0])

\* Repository.update_board: the boards table after the statement
update_board(board_id, data) ==
    IF no_update_data(data) \/ board_id \notin DOMAIN boards
    THEN boards
    ELSE Put(boards, board_id, values(boards[board_id], data))

\* PATCH /projects/{project_id}/boards/{board_id}
update_board_partial(user_id, project_id, board_id, data) ==
    /\ accepting
    /\ UNCHANGED inflight
    /\ IF ~get_project_with_details(project_id)
       THEN /\ resp' = Response("update_board_partial", 404, user_id, project_id, board_id, 0, Unset)
            /\ UNCHANGED boards
       ELSE IF must_be_owner_or_member(project_id, user_id)
       THEN /\ resp' = Response("update_board_partial", 403, user_id, project_id, board_id, 0, Unset)
            /\ UNCHANGED boards
       ELSE /\ boards' = update_board(board_id, data)
            /\ resp' = Response("update_board_partial",
                                IF get_board_by_id(board_id) THEN 200 ELSE 404,
                                user_id, project_id, board_id, 0, Unset)
    /\ UNCHANGED <<users, projects, members, tasks, seqs>>

\* DELETE /projects/{project_id}/boards/{board_id}
delete_board_by_id(user_id, project_id, board_id) ==
    /\ accepting
    /\ UNCHANGED inflight
    /\ IF ~get_project_with_details(project_id)
       THEN /\ resp' = Response("delete_board_by_id", 404, user_id, project_id, board_id, 0, Unset)
            /\ UNCHANGED <<boards, tasks>>
       ELSE IF must_be_owner_or_member(project_id, user_id)
       THEN /\ resp' = Response("delete_board_by_id", 403, user_id, project_id, board_id, 0, Unset)
            /\ UNCHANGED <<boards, tasks>>
       ELSE /\ boards' = Drop(boards, {board_id})
            /\ tasks' = Drop(tasks, tasks_of({board_id}))
            /\ resp' = Response("delete_board_by_id",
                                IF get_board_by_id(board_id) THEN 204 ELSE 404,
                                user_id, project_id, board_id, 0, Unset)
    /\ UNCHANGED <<users, projects, members, seqs>>

\* main.py "member_ids = [member.user_id for member in project.members]" of the
\* project loaded by board.project_id
member_ids(board_id) == {m.user_id : m \in project_members(boards[board_id].project_id)}

\* main.py "if task_data.assignee_id and task_data.assignee_id not in member_ids"
assignee_is_not_a_member(assignee_id, board_id) ==
    Truthy(assignee_id) /\ assignee_id \notin member_ids(board_id)

\* ForeignKey("users.id") of tasks.assignee_id (models.py): the write names a
\* user that does not exist
assignee_violates_foreign_key(assignee_id) ==
    assignee_id # None /\ assignee_id \notin DOMAIN users

\* a task body whose missing priority is filled in as low
task_data_low_priority(body) ==
    body @@ [assignee_id |-> None, status |-> TODO, priority |-> "low"]

\* schemas.TaskCreate of a request body: the fields the body supplies and the
\* defaults of TaskBase / TaskCreate for the others
task_data(body) ==
    body @@ [assignee_id |-> None, status |-> TODO, priority |-> MEDIUM]

\* POST /projects/{project_id}/boards/{board_id}/tasks
create_new_task_on_board(user_id, project_id, board_id, data) ==
    /\ accepting
    /\ UNCHANGED inflight
    /\ IF ~get_project_with_details(project_id)
       THEN /\ resp' = Response("create_new_task_on_board", 404, user_id, project_id, board_id, 0, task_data(data).assignee_id)
            /\ UNCHANGED <<tasks, nextTaskId>>
       ELSE IF must_be_owner_or_member(project_id, user_id)
       THEN /\ resp' = Response("create_new_task_on_board", 403, user_id, project_id, board_id, 0, task_data(data).assignee_id)
            /\ UNCHANGED <<tasks, nextTaskId>>
       ELSE IF ~get_board_by_id(board_id)
       THEN /\ resp' = Response("create_new_task_on_board", 404, user_id, project_id, board_id, 0, task_data(data).assignee_id)
            /\ UNCHANGED <<tasks, nextTaskId>>
       ELSE IF ~get_project_with_details(boards[board_id].project_id)
       \* "project.members" of None raises AttributeError
       THEN /\ resp' = Response("create_new_task_on_board", 500, user_id, project_id, board_id, 0, task_data(data).assignee_id)
            /\ UNCHANGED <<tasks, nextTaskId>>
       ELSE IF user_id \notin member_ids(board_id)
       THEN /\ resp' = Response("create_new_task_on_board", 403, user_id, project_id, board_id, 0, task_data(data).assignee_id)
            /\ UNCHANGED <<tasks, nextTaskId>>
       ELSE IF assignee_is_not_a_member(task_data(data).assignee_id, board_id)
       THEN /\ resp' = Response("create_new_task_on_board", 409, user_id, project_id, board_id, 0, task_data(data).assignee_id)
            /\ UNCHANGED <<tasks, nextTaskId>>
       ELSE /\ nextTaskId <= MaxTasks
            /\ nextTaskId' = nextTaskId + 1
            /\ IF assignee_violates_foreign_key(task_data(data).assignee_id)
               THEN /\ resp' = Response("create_new_task_on_board", 500, user_id, project_id, board_id, 0, task_data(data).assignee_id)
                    /\ UNCHANGED tasks
               ELSE /\ tasks' = Put(tasks, nextTaskId,
                                    [board_id |-> board_id, assignee_id |-> task_data(data).assignee_id,
                                     status |-> task_data(data).status,
                                     priority |-> task_data(data).priority])
                    /\ resp' = Response("create_new_task_on_board", 201, user_id, project_id,
                                        board_id, nextTaskId, task_data(data).assignee_id)
    /\ UNCHANGED <<users, projects, members, boards, nextUserId, nextProjectId, nextBoardId>>

\* GET /projects/{project_id}/boards/{board_id}/tasks{task_id}
get_task_details(user_id, project_id, board_id, task_id) ==
    /\ accepting
    /\ UNCHANGED inflight
    /\ resp' = Response("get_task_details",
                        IF ~get_project_with_details(project_id) THEN 404
                        ELSE IF must_be_owner_or_member(project_id, user_id) THEN 403
                        ELSE IF ~get_board_by_id(board_id) THEN 404
                        ELSE IF ~get_task_by_id(task_id) THEN 404
                        ELSE 200,
                        user_id, project_id, board_id, task_id, Unset)
    /\ UNCHANGED <<store, seqs>>

\* the assignee a task update supplies, Unset when it supplies none
supplied_assignee(data) ==
    IF "assignee_id" \in DOMAIN data THEN data.assignee_id ELSE Unset

\* Repository.update_task: the tasks table after the statement
update_task(task_id, data) ==
    IF no_update_data(data) \/ task_id \notin DOMAIN tasks
    THEN tasks
    ELSE Put(tasks, task_id, values(tasks[task_id], data))

\* PATCH /projects/{project_id}/boards/{board_id}/tasks{task_id}
update_task_partial(user_id, project_id, board_id, task_id, data) ==
    /\ accepting
    /\ UNCHANGED inflight
    /\ IF ~get_project_with_details(project_id)
       THEN /\ resp' = Response("update_task_partial", 404, user_id, project_id, board_id, task_id, supplied_assignee(data))
            /\ UNCHANGED tasks
       ELSE IF must_be_owner_or_member(project_id, user_id)
       THEN /\ resp' = Response("update_task_partial", 403, user_id, project_id, board_id, task_id, supplied_assignee(data))
            /\ UNCHANGED tasks
       ELSE IF ~get_board_by_id(board_id)
       THEN /\ resp' = Response("update_task_partial", 404, user_id, project_id, board_id, task_id, supplied_assignee(data))
            /\ UNCHANGED tasks
       ELSE IF ~get_task_by_id(task_id)
       \* the UPDATE matches no row and get_task_by_id returns None
       THEN /\ resp' = Response("update_task_partial", 404, user_id, project_id, board_id, task_id, supplied_assignee(data))
            /\ UNCHANGED tasks
       ELSE IF "assignee_id" \in DOMAIN data /\ assignee_violates_foreign_key(data.assignee_id)
       THEN /\ resp' = Response("update_task_partial", 500, user_id, project_id, board_id, task_id, supplied_assignee(data))
            /\ UNCHANGED tasks
       ELSE /\ tasks' = update_task(task_id, data)
            /\ resp' = Response("update_task_partial", 200, user_id, project_id, board_id, task_id, supplied_assignee(data))
    /\ UNCHANGED <<users, projects, members, boards, seqs>>

\* DELETE /projects/{project_id}/boards/{board_id}/tasks{task_id}
delete_task_by_id(user_id, project_id, board_id, task_id) ==
    /\ accepting
    /\ UNCHANGED inflight
    /\ IF ~get_project_with_details(project_id)
       THEN /\ resp' = Response("delete_task_by_id", 404, user_id, project_id, board_id, task_id, Unset)
            /\ UNCHANGED tasks
       ELSE IF must_be_owner_or_member(project_id, user_id)
       THEN /\ resp' = Response("delete_task_by_id", 403, user_id, project_id, board_id, task_id, Unset)
            /\ UNCHANGED tasks
       ELSE IF ~get_board_by_id(board_id)
       THEN /\ resp' = Response("delete_task_by_id", 404, user_id, project_id, board_id, task_id, Unset)
            /\ UNCHANGED tasks
       ELSE /\ tasks' = Drop(tasks, {task_id})
            /\ resp' = Response("delete_task_by_id",
                                IF get_task_by_id(task_id) THEN 204 ELSE 404,
                                user_id, project_id, board_id, task_id, Unset)
    /\ UNCHANGED <<users, projects, members, boards, seqs>>

\* ------------------------------------------------------- request bodies
Passwords == {"pw", "pw2"}
ProjectCreate == [name : ProjectNames, status : ProjectStatusInputs]
ProjectUpdate ==
    {[x \in {} |-> 0]} \cup [name : ProjectNames] \cup [status : ProjectStatusInputs]
        \cup [name : ProjectNames, status : ProjectStatusInputs]
BoardPositions == {0}
BoardCreate == [title : BoardTitles, position : BoardPositions]
BoardUpdate ==
    {[x \in {} |-> 0]} \cup [title : BoardTitles] \cup [position : BoardPositions]
        \cup [title : BoardTitles, position : BoardPositions]
TaskCreate == [assignee_id : AssigneeInputs, status : TaskStatusInputs]
TaskUpdate ==
    {[x \in {} |-> 0]} \cup [assignee_id : AssigneeInputs] \cup [status : TaskStatusInputs]
        \cup [assignee_id : AssigneeInputs, status : TaskStatusInputs]
\* where the session.begin() block of Repository.create_project may raise
Faults == {"none", "project_insert", "member_insert"}

\* security.get_current_user resolves the bearer token to a row of users:
\* the caller of every handler below register is a registered user
CurrentUsers == DOMAIN users

\* ids a request may name for a user: every user id and one no user has
UserIdInputs == UserIds \cup {MaxUsers + 1}

\* the store after MaxUsers registrations (user i registered as i, i)
InitRegistered ==
    /\ users = [u \in UserIds |-> [username |-> u, email |-> u,
                                   password_hash |-> hash_password("pw")]]
    /\ projects = EmptyTable
    /\ members = {}
    /\ boards = EmptyTable
    /\ tasks = EmptyTable
    /\ nextUserId = MaxUsers + 1
    /\ nextProjectId = 1
    /\ nextBoardId = 1
    /\ nextTaskId = 1
    /\ resp = NoResponse
    /\ inflight = EmptyTable

\* the member endpoints
MemberRequests ==
    \/ \E u \in CurrentUsers, p \in ProjectIds, m \in UserIdInputs, role \in MemberRole :
           add_project_member(u, p, m, role)
    \/ \E u \in CurrentUsers, p \in ProjectIds, m \in UserIds :
           remove_member_from_project(u, p, m)

\* the project endpoints
ProjectRequests ==
    \/ \E u \in CurrentUsers, data \in ProjectCreate, fault \in Faults :
           create_new_project(u, data, fault)
    \/ \E u \in CurrentUsers, p \in ProjectIds : get_project_details(u, p)
    \/ \E u \in CurrentUsers, p \in ProjectIds, data \in ProjectUpdate :
           update_project_partial(u, p, data)
    \/ \E u \in CurrentUsers, p \in ProjectIds : delete_project_by_id(u, p)
    \/ \E u \in CurrentUsers, p \in ProjectIds : get_project_members_list(u, p)

\* the board endpoints, for request bodies drawn from creates and updates
BoardRequests(creates, updates) ==
    \/ \E u \in CurrentUsers, p \in ProjectIds, data \in creates :
           create_new_board_in_project(u, p, data)
    \/ \E u \in CurrentUsers, p \in ProjectIds, b \in BoardIds, data \in updates :
           update_board_partial(u, p, b, data)
    \/ \E u \in CurrentUsers, p \in ProjectIds, b \in BoardIds : delete_board_by_id(u, p, b)

\* the task endpoints, for request bodies drawn from creates and updates
TaskRequests(creates, updates) ==
    \/ \E u \in CurrentUsers, p \in ProjectIds, b \in BoardIds, data \in creates :
           create_new_task_on_board(u, p, b, data)
    \/ \E u \in CurrentUsers, p \in ProjectIds, b \in BoardIds, t \in TaskIds :
           get_task_details(u, p, b, t)
    \/ \E u \in CurrentUsers, p \in ProjectIds, b \in BoardIds, t \in TaskIds, data \in updates :
           update_task_partial(u, p, b, t, data)
    \/ \E u \in CurrentUsers, p \in ProjectIds, b \in BoardIds, t \in TaskIds :
           delete_task_by_id(u, p, b, t)

\* the whole API, from the empty store
Next ==
    \/ \E username \in Usernames, email \in Emails, password \in Passwords :
           register_user(username, email, password)
    \/ \E email \in Emails, password \in Passwords : login_for_access_token(email, password)
    \/ ProjectRequests
    \/ MemberRequests
    \/ BoardRequests(BoardCreate, BoardUpdate)
    \/ TaskRequests(TaskCreate, TaskUpdate)
    \/ send_response

Spec == Init /\ [][Next]_vars

\* accounts: users register and log in, from the empty store
NextUsers ==
    \/ \E username \in Usernames, email \in Emails, password \in Passwords :
           register_user(username, email, password)
    \/ \E email \in Emails, password \in Passwords : login_for_access_token(email, password)
    \/ send_response

SpecUsers == Init /\ [][NextUsers]_vars

\* schemas.py defaults of a body that names nothing but the required fields
DefaultProject == [name |-> "P", status |-> ACTIVE]

\* projects and their membership: registered users create projects (the
\* creation may fail), read and delete them and change their membership
NextMembers ==
    \/ \E u \in CurrentUsers, fault \in Faults : create_new_project(u, DefaultProject, fault)
    \/ \E u \in CurrentUsers, p \in ProjectIds : get_project_details(u, p)
    \/ \E u \in CurrentUsers, p \in ProjectIds : delete_project_by_id(u, p)
    \/ MemberRequests
    \/ send_response

SpecMembers == InitRegistered /\ [][NextMembers]_vars

\* the owner-only endpoints: registered users create projects, update them,
\* list their members and change their membership
NextOwnerOnly ==
    \/ \E u \in CurrentUsers : create_new_project(u, DefaultProject, "none")
    \/ \E u \in CurrentUsers, p \in ProjectIds, data \in ProjectUpdate :
           update_project_partial(u, p, data)
    \/ \E u \in CurrentUsers, p \in ProjectIds : get_project_members_list(u, p)
    \/ MemberRequests
    \/ send_response

SpecOwnerOnly == InitRegistered /\ [][NextOwnerOnly]_vars

\* board and task bodies that name nothing but the required fields
DefaultBoards == [title : {"Backlog"}, position : BoardPositions]
DefaultTasks == [assignee_id : AssigneeInputs, status : {TODO}]
\* updates that rename a board, and updates that set or clear a task's assignee
BoardRenames == {[x \in {} |-> 0]} \cup [title : BoardTitles]
TaskAssignments == {[x \in {} |-> 0]} \cup [assignee_id : AssigneeInputs]

\* boards and tasks under projects: registered users create projects, change
\* their membership and call the board and task endpoints
NextBoards ==
    \/ \E u \in CurrentUsers : create_new_project(u, DefaultProject, "none")
    \/ \E u \in CurrentUsers, p \in ProjectIds : get_project_details(u, p)
    \/ MemberRequests
    \/ BoardRequests(DefaultBoards, BoardRenames)
    \/ TaskRequests(DefaultTasks, TaskAssignments)
    \/ send_response

SpecBoards == InitRegistered /\ [][NextBoards]_vars

\* task bodies that name no assignee
UnassignedTasks == [assignee_id : {None}, status : {TODO}]

\* a task body that names the title only, and bodies that name a priority
TitleOnlyTask == EmptyTable
PrioritizedTasks == [priority : {HIGH}]

\* projects deleted with what they hold: registered users create projects,
\* change their membership, fill them with boards and tasks and delete them
NextCascade ==
    \/ \E u \in CurrentUsers : create_new_project(u, DefaultProject, "none")
    \/ \E u \in CurrentUsers, p \in ProjectIds : delete_project_by_id(u, p)
    \/ \E u \in CurrentUsers, p \in ProjectIds, m \in UserIds :
           add_project_member(u, p, m, MEMBER)
    \/ \E u \in CurrentUsers, p \in ProjectIds, data \in DefaultBoards :
           create_new_board_in_project(u, p, data)
    \/ \E u \in CurrentUsers, p \in ProjectIds, b \in BoardIds, data \in UnassignedTasks :
           create_new_task_on_board(u, p, b, data)
    \/ send_response

SpecCascade == InitRegistered /\ [][NextCascade]_vars

\* board titles within projects: registered users create projects and create
\* and update boards
NextTitles ==
    \/ \E u \in CurrentUsers : create_new_project(u, DefaultProject, "none")
    \/ \E u \in CurrentUsers, p \in ProjectIds, data \in BoardCreate :
           create_new_board_in_project(u, p, data)
    \/ \E u \in CurrentUsers, p \in ProjectIds, b \in BoardIds, data \in BoardUpdate :
           update_board_partial(u, p, b, data)
    \/ send_response

SpecTitles == InitRegistered /\ [][NextTitles]_vars

\* the rows ever inserted into the projects, boards and tasks tables: the ids
\* their sequences have handed out
entity_rows == (nextProjectId - 1) + (nextBoardId - 1) + (nextTaskId - 1)

\* partial updates: registered users create projects, boards and tasks (up to
\* MaxRows rows) and update them through the path of the entity's own project
\* and board
NextUpdates ==
    \/ /\ entity_rows < MaxRows
       /\ \E u \in CurrentUsers : create_new_project(u, DefaultProject, "none")
    \/ \E u \in CurrentUsers, p \in ProjectIds, data \in ProjectUpdate :
           update_project_partial(u, p, data)
    \/ /\ entity_rows < MaxRows
       /\ \E u \in CurrentUsers, p \in ProjectIds, data \in DefaultBoards :
              create_new_board_in_project(u, p, data)
    \/ \E u \in CurrentUsers, b \in DOMAIN boards, data \in BoardUpdate :
           update_board_partial(u, boards[b].project_id, b, data)
    \/ /\ entity_rows < MaxRows
       /\ \E u \in CurrentUsers, b \in DOMAIN boards, data \in UnassignedTasks :
              create_new_task_on_board(u, boards[b].project_id, b, data)
    \/ \E u \in CurrentUsers, t \in DOMAIN tasks, data \in TaskUpdate :
           update_task_partial(u, boards[tasks[t].board_id].project_id,
                               tasks[t].board_id, t, data)
    \/ send_response

SpecUpdates == InitRegistered /\ [][NextUpdates]_vars

\* deletions: registered users create projects, boards and tasks (up to
\* MaxRows of them) and delete them and their membership rows, also by ids
\* that name no row
NextDeletes ==
    \/ /\ entity_rows < MaxRows
       /\ \E u \in CurrentUsers : create_new_project(u, DefaultProject, "none")
    \/ \E u \in CurrentUsers, p \in ProjectIds : delete_project_by_id(u, p)
    \/ \E u \in CurrentUsers, p \in ProjectIds, m \in UserIdInputs :
           remove_member_from_project(u, p, m)
    \/ /\ entity_rows < MaxRows
       /\ \E u \in CurrentUsers, p \in ProjectIds, data \in DefaultBoards :
              create_new_board_in_project(u, p, data)
    \/ \E u \in CurrentUsers, p \in ProjectIds, b \in BoardIds : delete_board_by_id(u, p, b)
    \/ /\ entity_rows < MaxRows
       /\ \E u \in CurrentUsers, b \in DOMAIN boards, data \in UnassignedTasks :
              create_new_task_on_board(u, boards[b].project_id, b, data)
    \/ \E u \in CurrentUsers, p \in ProjectIds, b \in BoardIds, t \in TaskIds :
           delete_task_by_id(u, p, b, t)
    \/ send_response

SpecDeletes == InitRegistered /\ [][NextDeletes]_vars

\* ----------------------------------------------------------- bearer tokens
\* security.create_access_token: a token signed with SECRET_KEY whose exp lies
\* in the future and whose sub is the user's email
create_access_token(email) ==
    [present |-> TRUE, signature |-> "valid", exp |-> "future", sub |-> email]

\* what the Authorization header of a request may carry: nothing, or a token
\* with a valid or forged signature, a future or past exp, and a sub that is
\* missing (None), a registered email or an email nobody registered
Tokens ==
    {[present |-> FALSE, signature |-> "invalid", exp |-> "past", sub |-> None]}
        \cup [present : {TRUE}, signature : {"valid", "invalid"},
              exp : {"future", "past"}, sub : {None} \cup (1..(MaxUsers + 1))]

\* the HTTPException(401) of get_current_user (and of oauth2_scheme): no user
\* id is returned
credentials_exception == 0

\* get_current_user that reads the claims without verifying them
get_current_user_unverified_claims(token) ==
    IF ~token.present \/ token.sub = None \/ get_user_by_email(token.sub) = {}
    THEN credentials_exception
    ELSE CHOOSE u \in get_user_by_email(token.sub) : TRUE

\* security.get_current_user behind oauth2_scheme: the id of the user the
\* token names, or credentials_exception
get_current_user(token) ==
    IF ~token.present THEN credentials_exception
    ELSE IF token.signature # "valid" \/ token.exp # "future" THEN credentials_exception
    ELSE IF token.sub = None THEN credentials_exception
    ELSE IF get_user_by_email(token.sub) = {} THEN credentials_exception
    ELSE CHOOSE u \in get_user_by_email(token.sub) : TRUE

\* the header of a request without a token
NoToken == [present |-> FALSE, signature |-> "invalid", exp |-> "past", sub |-> None]

\* the access_token of the body login_for_access_token returns for the form
\* fields, presented before it expires; NoToken when login raises 401
access_token(email, password) ==
    IF \/ get_user_by_email(email) = {}
       \/ ~verify_password(password,
              users[CHOOSE u \in get_user_by_email(email) : TRUE].password_hash)
    THEN NoToken
    ELSE create_access_token(users[CHOOSE u \in get_user_by_email(email) : TRUE].email)

\* the lifetime, in minutes, create_access_token gives a token when
\* expires_delta is falsy
DefaultExpireMinutes == 15

\* the minutes ACCESS_TOKEN_EXPIRE_MINUTES may be set to, and the minutes at
\* which a login may be served
ExpireMinutes == {0, DefaultExpireMinutes, 30}
IssueTimes == {0, 1}

\* security.create_access_token "to_encode": the claims jwt.encode signs, for
\* a call at minute now; timedelta(0) is falsy
to_encode(data, expires_delta, now) ==
    [exp |-> now + (IF expires_delta # 0 THEN expires_delta ELSE DefaultExpireMinutes)]
        @@ data

\* the claims of the token login_for_access_token issues to user_id
access_token_claims(user_id, expire_minutes, now) ==
    to_encode([sub |-> users[user_id].email, id |-> user_id,
               username |-> users[user_id].username],
              expire_minutes, now)

\* the request ends in the dependency: 401, and the handler never runs
unauthorized(op) ==
    /\ accepting
    /\ UNCHANGED inflight
    /\ resp' = Response(op, 401, 0, 0, 0, 0, Unset)
    /\ UNCHANGED <<store, seqs>>

\* GET /users/me
read_users_me(user_id) ==
    /\ accepting
    /\ UNCHANGED inflight
    /\ resp' = Response("read_users_me", 200, user_id, 0, 0, 0, Unset)
    /\ UNCHANGED <<store, seqs>>

\* the project list restricted to the projects the user owns
get_projects_for_user_owned(user_id) ==
    [p \in {m.project_id : m \in {x \in members : /\ x.user_id = user_id
                                                  /\ x.role = OWNER
                                                  /\ x.project_id \in DOMAIN projects}} |->
        Cardinality({m \in members : m.user_id = user_id /\ m.project_id = p})]

\* Repository.get_projects_for_user: select(Project).join(ProjectMember)
\* .where(ProjectMember.user_id == user_id), as the number of times each
\* project id occurs in the returned list (one per joined membership row)
get_projects_for_user(user_id) ==
    [p \in {m.project_id : m \in {x \in members : /\ x.user_id = user_id
                                                  /\ x.project_id \in DOMAIN projects}} |->
        Cardinality({m \in members : m.user_id = user_id /\ m.project_id = p})]

\* GET /projects
get_user_projects(user_id) ==
    /\ accepting
    /\ UNCHANGED inflight
    /\ resp' = Response("get_user_projects", 200, user_id, 0, 0, 0, Unset)
    /\ UNCHANGED <<store, seqs>>

\* the sixteen endpoints whose current_user is Depends(get_current_user),
\* requested with the given token; an authenticated request names rows that exist, through the
\* path of their own project and board, a user asks to be added itself, and
\* creations stop after MaxRows rows
AuthenticatedRequests(token) ==
    LET u == get_current_user(token) IN
    \/ IF u = credentials_exception THEN unauthorized("read_users_me")
       ELSE read_users_me(u)
    \/ IF u = credentials_exception THEN unauthorized("get_user_projects")
       ELSE get_user_projects(u)
    \/ IF u = credentials_exception THEN unauthorized("create_new_project")
       ELSE /\ entity_rows < MaxRows
            /\ create_new_project(u, DefaultProject, "none")
    \/ IF u = credentials_exception THEN unauthorized("get_project_details")
       ELSE \E p \in DOMAIN projects : get_project_details(u, p)
    \/ IF u = credentials_exception THEN unauthorized("update_project_partial")
       ELSE \E p \in DOMAIN projects :
                update_project_partial(u, p, [name |-> "P"])
    \/ IF u = credentials_exception THEN unauthorized("delete_project_by_id")
       ELSE \E p \in DOMAIN projects : delete_project_by_id(u, p)
    \/ IF u = credentials_exception THEN unauthorized("get_project_members_list")
       ELSE \E p \in DOMAIN projects : get_project_members_list(u, p)
    \/ IF u = credentials_exception THEN unauthorized("add_project_member")
       ELSE \E p \in DOMAIN projects : add_project_member(u, p, u, MEMBER)
    \/ IF u = credentials_exception THEN unauthorized("remove_member_from_project")
       ELSE \E p \in DOMAIN projects, m \in UserIds :
                remove_member_from_project(u, p, m)
    \/ IF u = credentials_exception THEN unauthorized("create_new_board_in_project")
       ELSE /\ entity_rows < MaxRows
            /\ \E p \in DOMAIN projects, data \in DefaultBoards :
                   create_new_board_in_project(u, p, data)
    \/ IF u = credentials_exception THEN unauthorized("update_board_partial")
       ELSE \E b \in DOMAIN boards :
                update_board_partial(u, boards[b].project_id, b, [position |-> 0])
    \/ IF u = credentials_exception THEN unauthorized("delete_board_by_id")
       ELSE \E b \in DOMAIN boards :
                delete_board_by_id(u, boards[b].project_id, b)
    \/ IF u = credentials_exception THEN unauthorized("create_new_task_on_board")
       ELSE /\ entity_rows < MaxRows
            /\ \E b \in DOMAIN boards, data \in UnassignedTasks :
                   create_new_task_on_board(u, boards[b].project_id, b, data)
    \/ IF u = credentials_exception THEN unauthorized("get_task_details")
       ELSE \E t \in DOMAIN tasks :
                get_task_details(u, boards[tasks[t].board_id].project_id,
                                 tasks[t].board_id, t)
    \/ IF u = credentials_exception THEN unauthorized("update_task_partial")
       ELSE \E t \in DOMAIN tasks :
                update_task_partial(u, boards[tasks[t].board_id].project_id,
                                    tasks[t].board_id, t, [status |-> TODO])
    \/ IF u = credentials_exception THEN unauthorized("delete_task_by_id")
       ELSE \E t \in DOMAIN tasks :
                delete_task_by_id(u, boards[tasks[t].board_id].project_id,
                                  tasks[t].board_id, t)

\* authentication: every endpoint behind get_current_user, requested with
\* every kind of Authorization header
NextAuth ==
    \/ \E token \in Tokens : AuthenticatedRequests(token)
    \/ send_response

SpecAuth == InitRegistered /\ [][NextAuth]_vars

\* requests of a registered user that name what does not exist or what the
\* user may not touch: a project, board, task or user id without a row, a
\* board or task through the path of another parent, an assignee outside
\* the project
StrayRequests(u) ==
    \/ \E p \in ProjectIds \ DOMAIN projects :
           \/ get_project_details(u, p)
           \/ update_project_partial(u, p, [name |-> "P"])
           \/ delete_project_by_id(u, p)
           \/ add_project_member(u, p, u, MEMBER)
           \/ create_new_board_in_project(u, p, [title |-> "Backlog", position |-> 0])
    \/ \E p \in DOMAIN projects : add_project_member(u, p, MaxUsers + 1, MEMBER)
    \/ \E p \in DOMAIN projects, b \in BoardIds \ DOMAIN boards :
           \/ update_board_partial(u, p, b, [position |-> 0])
           \/ delete_board_by_id(u, p, b)
           \/ create_new_task_on_board(u, p, b, TitleOnlyTask)
    \/ \E b \in DOMAIN boards, t \in TaskIds \ DOMAIN tasks :
           \/ get_task_details(u, boards[b].project_id, b, t)
           \/ update_task_partial(u, boards[b].project_id, b, t, [status |-> TODO])
           \/ delete_task_by_id(u, boards[b].project_id, b, t)
    \/ \E b \in DOMAIN boards :
           \E a \in UserIds \ member_ids(b) :
               create_new_task_on_board(u, boards[b].project_id, b, [assignee_id |-> a])

\* refusals: registrations and logins, every endpoint with every kind of
\* token, and the stray requests of registered users
NextErrors ==
    \/ \E username \in Usernames, email \in Emails : register_user(username, email, "pw")
    \/ \E email \in Emails, password \in Passwords : login_for_access_token(email, password)
    \/ \E token \in Tokens : AuthenticatedRequests(token)
    \/ \E u \in CurrentUsers : StrayRequests(u)
    \/ send_response

SpecErrors == InitRegistered /\ [][NextErrors]_vars

\* project lists: registered users create and delete projects, add each other
\* with either non-owner role, remove members and list their projects
NextLists ==
    \/ /\ entity_rows < MaxRows
       /\ \E u \in CurrentUsers : create_new_project(u, DefaultProject, "none")
    \/ \E u \in CurrentUsers, p \in DOMAIN projects : delete_project_by_id(u, p)
    \/ \E u \in CurrentUsers, p \in DOMAIN projects, m \in UserIds,
           role \in {MEMBER, NOT_ACCESSABLE_MEMBER} : add_project_member(u, p, m, role)
    \/ \E u \in CurrentUsers, p \in DOMAIN projects, m \in UserIds :
           remove_member_from_project(u, p, m)
    \/ \E u \in CurrentUsers : get_user_projects(u)
    \/ send_response

SpecLists == InitRegistered /\ [][NextLists]_vars

\* ------------------------------------------------- handlers, step by step
\* a handler as the steps other requests can come between: the project load,
\* the role check, and what the handler does after it (one step, except the
\* board creation, whose lookup and insert are two)
\* ids of the requests that may be in the middle of their handler
RequestIds == 1..MaxRequests

\* the handlers that start with the owner check, and those that start with
\* the owner-or-member check
OwnerHandlers ==
    {"update_project_partial", "delete_project_by_id", "get_project_members_list",
     "add_project_member", "remove_member_from_project"}
MemberHandlers ==
    {"get_project_details", "create_new_board_in_project", "update_board_partial",
     "delete_board_by_id", "create_new_task_on_board", "get_task_details",
     "update_task_partial", "delete_task_by_id"}

\* the role of the caller's row among the loaded project.members, "none"
\* without a row
loaded_role(project_id, user_id) ==
    IF membership(project_id, user_id) = {} THEN "none"
    ELSE (CHOOSE m \in membership(project_id, user_id) : TRUE).role

\* the server takes a step of a handler only when no response is waiting to be
\* sent. A request whose current_user is resolved and whose handler body has
\* not started: its arguments, the project and role it has loaded so far, and
\* the steps it has taken
Request(op, user_id, project_id, board_id, task_id, member_id, data) ==
    [op |-> op, user_id |-> user_id, project_id |-> project_id, board_id |-> board_id,
     task_id |-> task_id, member_id |-> member_id, data |-> data,
     pc |-> "identified", project |-> FALSE, role |-> "none",
     steps |-> <<"identity">>]

\* Depends(security.get_current_user) has returned the caller
receive(r, request) ==
    /\ resp = NoResponse
    /\ r \notin DOMAIN inflight
    /\ inflight' = Put(inflight, r, request)
    /\ UNCHANGED <<store, seqs, resp>>

\* "project = await Repository.get_project_with_details(project_id)": the
\* handler holds the project and its members as they are now
load_project(r) ==
    /\ resp = NoResponse
    /\ r \in DOMAIN inflight
    /\ inflight[r].pc = "identified"
    /\ inflight' = Put(inflight, r,
                       [inflight[r] EXCEPT
                            !.pc = "loaded",
                            !.project = get_project_with_details(inflight[r].project_id),
                            !.role = loaded_role(inflight[r].project_id, inflight[r].user_id),
                            !.steps = Append(@, "membership")])
    /\ UNCHANGED <<store, seqs, resp>>

\* the status of the HTTPException the handler raises on the loaded project
\* and role, 0 when it raises none
raised(request) ==
    IF request.op \in OwnerHandlers
    THEN IF ~request.project \/ request.role # OWNER THEN 403 ELSE 0
    ELSE IF ~request.project THEN 404
    ELSE IF request.role \notin {OWNER, MEMBER} THEN 403
    ELSE 0

\* the request ends: its response is ready
finish(r, status, board_id, task_id) ==
    /\ accepting
    /\ resp' = Response(inflight[r].op, status, inflight[r].user_id,
                        inflight[r].project_id, board_id, task_id, Unset)
    /\ inflight' = Drop(inflight, {r})

\* the handler raises 404 or 403 on what it loaded
deny(r) ==
    /\ r \in DOMAIN inflight
    /\ inflight[r].pc = "loaded"
    /\ raised(inflight[r]) # 0
    /\ finish(r, raised(inflight[r]), inflight[r].board_id, inflight[r].task_id)
    /\ UNCHANGED <<store, seqs>>

\* the handler passes its role check
allow(r) ==
    /\ resp = NoResponse
    /\ r \in DOMAIN inflight
    /\ inflight[r].pc = "loaded"
    /\ raised(inflight[r]) = 0
    /\ inflight' = Put(inflight, r, [inflight[r] EXCEPT !.pc = "allowed",
                                                        !.steps = Append(@, "decision")])
    /\ UNCHANGED <<store, seqs, resp>>

\* a handler body that does not wait for the role check
allowed_unchecked(r, op) ==
    /\ r \in DOMAIN inflight
    /\ inflight[r].op = op

\* request r has passed the role check of handler op
allowed(r, op) ==
    /\ r \in DOMAIN inflight
    /\ inflight[r].pc = "allowed"
    /\ inflight[r].op = op

\* get_project_details after its check: the project is read again
get_project_details_body(r) ==
    /\ allowed(r, "get_project_details")
    /\ finish(r, IF get_project_with_details(inflight[r].project_id) THEN 200 ELSE 404, 0, 0)
    /\ UNCHANGED <<store, seqs>>

\* update_project_partial after its check
update_project_partial_body(r) ==
    /\ allowed(r, "update_project_partial")
    /\ projects' = update_project(inflight[r].project_id, inflight[r].data)
    /\ finish(r, IF \/ no_update_data(inflight[r].data)
                    \/ ~get_project_with_details(inflight[r].project_id)
                 THEN 404 ELSE 200, 0, 0)
    /\ UNCHANGED <<users, members, boards, tasks, seqs>>

\* delete_project_by_id after its check
delete_project_by_id_body(r) ==
    /\ allowed(r, "delete_project_by_id")
    /\ projects' = Drop(projects, {inflight[r].project_id})
    /\ members' = members_after_project_delete(inflight[r].project_id)
    /\ boards' = Drop(boards, boards_of({inflight[r].project_id}))
    /\ tasks' = Drop(tasks, tasks_of(boards_of({inflight[r].project_id})))
    /\ finish(r, IF get_project_with_details(inflight[r].project_id) THEN 204 ELSE 404, 0, 0)
    /\ UNCHANGED <<users, seqs>>

\* get_project_members_list after its check
get_project_members_list_body(r) ==
    /\ allowed(r, "get_project_members_list")
    /\ finish(r, 200, 0, 0)
    /\ UNCHANGED <<store, seqs>>

\* add_project_member after its check; the insert also fails when the
\* project row is gone (foreign key of project_members.project_id)
add_project_member_body(r) ==
    /\ allowed(r, "add_project_member")
    /\ IF ~get_user_by_id(inflight[r].member_id)
       THEN /\ finish(r, 404, 0, 0)
            /\ UNCHANGED members
       ELSE IF \/ project_member_exists(inflight[r].project_id, inflight[r].member_id)
               \/ ~get_project_with_details(inflight[r].project_id)
       THEN /\ finish(r, 500, 0, 0)
            /\ UNCHANGED members
       ELSE /\ Cardinality(members) < MaxMembers
            /\ members' = members \cup {[project_id |-> inflight[r].project_id,
                                         user_id |-> inflight[r].member_id,
                                         role |-> inflight[r].data.role]}
            /\ finish(r, 201, 0, 0)
    /\ UNCHANGED <<users, projects, boards, tasks, seqs>>

\* remove_member_from_project after its check
remove_member_from_project_body(r) ==
    /\ allowed(r, "remove_member_from_project")
    /\ members' = remove_project_member(inflight[r].project_id, inflight[r].member_id)
    /\ finish(r, IF project_member_exists(inflight[r].project_id, inflight[r].member_id)
                 THEN 204 ELSE 404, 0, 0)
    /\ UNCHANGED <<users, projects, boards, tasks, seqs>>

\* Repository.create_board "existing_board_query", in its own statement
existing_board_query(r) ==
    /\ resp = NoResponse
    /\ allowed(r, "create_new_board_in_project")
    /\ IF board_title_exists(inflight[r].project_id, inflight[r].data.title)
       THEN finish(r, 500, 0, 0)
       ELSE /\ inflight' = Put(inflight, r, [inflight[r] EXCEPT !.pc = "checked"])
            /\ UNCHANGED resp
    /\ UNCHANGED <<store, seqs>>

\* Repository.create_board "session.add(new_board); await session.commit()";
\* the insert fails when the project row is gone (foreign key of
\* boards.project_id)
insert_board(r) ==
    /\ r \in DOMAIN inflight
    /\ inflight[r].pc = "checked"
    /\ nextBoardId <= MaxBoards
    /\ nextBoardId' = nextBoardId + 1
    /\ IF ~get_project_with_details(inflight[r].project_id)
       THEN /\ finish(r, 500, 0, 0)
            /\ UNCHANGED boards
       ELSE /\ boards' = Put(boards, nextBoardId,
                             [project_id |-> inflight[r].project_id,
                              title |-> inflight[r].data.title,
                              position |-> inflight[r].data.position])
            /\ finish(r, 201, nextBoardId, 0)
    /\ UNCHANGED <<users, projects, members, tasks, nextUserId, nextProjectId, nextTaskId>>

\* update_board_partial after its check
update_board_partial_body(r) ==
    /\ allowed(r, "update_board_partial")
    /\ boards' = update_board(inflight[r].board_id, inflight[r].data)
    /\ finish(r, IF get_board_by_id(inflight[r].board_id) THEN 200 ELSE 404,
              inflight[r].board_id, 0)
    /\ UNCHANGED <<users, projects, members, tasks, seqs>>

\* delete_board_by_id after its check
delete_board_by_id_body(r) ==
    /\ allowed(r, "delete_board_by_id")
    /\ boards' = Drop(boards, {inflight[r].board_id})
    /\ tasks' = Drop(tasks, tasks_of({inflight[r].board_id}))
    /\ finish(r, IF get_board_by_id(inflight[r].board_id) THEN 204 ELSE 404,
              inflight[r].board_id, 0)
    /\ UNCHANGED <<users, projects, members, seqs>>

\* create_new_task_on_board after its first check: the board, the members of
\* the board's project, the assignee, the insert
create_new_task_on_board_body(r) ==
    /\ allowed(r, "create_new_task_on_board")
    /\ IF ~get_board_by_id(inflight[r].board_id)
       THEN /\ finish(r, 404, inflight[r].board_id, 0)
            /\ UNCHANGED <<tasks, nextTaskId>>
       ELSE IF ~get_project_with_details(boards[inflight[r].board_id].project_id)
       THEN /\ finish(r, 500, inflight[r].board_id, 0)
            /\ UNCHANGED <<tasks, nextTaskId>>
       ELSE IF inflight[r].user_id \notin member_ids(inflight[r].board_id)
       THEN /\ finish(r, 403, inflight[r].board_id, 0)
            /\ UNCHANGED <<tasks, nextTaskId>>
       ELSE IF assignee_is_not_a_member(task_data(inflight[r].data).assignee_id, inflight[r].board_id)
       THEN /\ finish(r, 409, inflight[r].board_id, 0)
            /\ UNCHANGED <<tasks, nextTaskId>>
       ELSE /\ nextTaskId <= MaxTasks
            /\ nextTaskId' = nextTaskId + 1
            /\ IF assignee_violates_foreign_key(task_data(inflight[r].data).assignee_id)
               THEN /\ finish(r, 500, inflight[r].board_id, 0)
                    /\ UNCHANGED tasks
               ELSE /\ tasks' = Put(tasks, nextTaskId,
                                    [board_id |-> inflight[r].board_id,
                                     assignee_id |-> task_data(inflight[r].data).assignee_id,
                                     status |-> task_data(inflight[r].data).status,
                                     priority |-> task_data(inflight[r].data).priority])
                    /\ finish(r, 201, inflight[r].board_id, nextTaskId)
    /\ UNCHANGED <<users, projects, members, boards, nextUserId, nextProjectId, nextBoardId>>

\* get_task_details after its check
get_task_details_body(r) ==
    /\ allowed(r, "get_task_details")
    /\ finish(r, IF ~get_board_by_id(inflight[r].board_id) THEN 404
                 ELSE IF ~get_task_by_id(inflight[r].task_id) THEN 404
                 ELSE 200,
              inflight[r].board_id, inflight[r].task_id)
    /\ UNCHANGED <<store, seqs>>

\* update_task_partial after its check
update_task_partial_body(r) ==
    /\ allowed(r, "update_task_partial")
    /\ IF ~get_board_by_id(inflight[r].board_id) \/ ~get_task_by_id(inflight[r].task_id)
       THEN /\ finish(r, 404, inflight[r].board_id, inflight[r].task_id)
            /\ UNCHANGED tasks
       ELSE IF /\ "assignee_id" \in DOMAIN inflight[r].data
               /\ assignee_violates_foreign_key(inflight[r].data.assignee_id)
       THEN /\ finish(r, 500, inflight[r].board_id, inflight[r].task_id)
            /\ UNCHANGED tasks
       ELSE /\ tasks' = update_task(inflight[r].task_id, inflight[r].data)
            /\ finish(r, 200, inflight[r].board_id, inflight[r].task_id)
    /\ UNCHANGED <<users, projects, members, boards, seqs>>

\* delete_task_by_id after its check
delete_task_by_id_body(r) ==
    /\ allowed(r, "delete_task_by_id")
    /\ IF ~get_board_by_id(inflight[r].board_id)
       THEN /\ finish(r, 404, inflight[r].board_id, inflight[r].task_id)
            /\ UNCHANGED tasks
       ELSE /\ tasks' = Drop(tasks, {inflight[r].task_id})
            /\ finish(r, IF get_task_by_id(inflight[r].task_id) THEN 204 ELSE 404,
                      inflight[r].board_id, inflight[r].task_id)
    /\ UNCHANGED <<users, projects, members, boards, seqs>>

\* the steps of request r after it was received
Steps(r) ==
    \/ load_project(r)
    \/ deny(r)
    \/ allow(r)
    \/ get_project_details_body(r)
    \/ update_project_partial_body(r)
    \/ delete_project_by_id_body(r)
    \/ get_project_members_list_body(r)
    \/ add_project_member_body(r)
    \/ remove_member_from_project_body(r)
    \/ existing_board_query(r)
    \/ insert_board(r)
    \/ update_board_partial_body(r)
    \/ delete_board_by_id_body(r)
    \/ create_new_task_on_board_body(r)
    \/ get_task_details_body(r)
    \/ update_task_partial_body(r)
    \/ delete_task_by_id_body(r)

\* what a registered user may ask of the handlers that name a project: the
\* request names rows that exist, through the path of their own project and
\* board, and creations stop after MaxRows rows
HandlerRequests(user_id) ==
    {Request(op, user_id, p, 0, 0, 0, EmptyTable) :
         op \in {"get_project_details", "delete_project_by_id", "get_project_members_list"},
         p \in DOMAIN projects}
        \cup {Request("update_project_partial", user_id, p, 0, 0, 0, [name |-> "P"]) :
                  p \in DOMAIN projects}
        \cup {Request("add_project_member", user_id, p, 0, 0, m, [role |-> MEMBER]) :
                  p \in DOMAIN projects, m \in UserIds}
        \cup {Request("remove_member_from_project", user_id, p, 0, 0, m, EmptyTable) :
                  p \in DOMAIN projects, m \in UserIds}
        \cup {Request("create_new_board_in_project", user_id, p, 0, 0, 0, data) :
                  p \in {x \in DOMAIN projects : entity_rows < MaxRows},
                  data \in DefaultBoards}
        \cup {Request("update_board_partial", user_id, boards[b].project_id, b, 0, 0,
                      [position |-> 0]) : b \in DOMAIN boards}
        \cup {Request("delete_board_by_id", user_id, boards[b].project_id, b, 0, 0,
                      EmptyTable) : b \in DOMAIN boards}
        \cup {Request("create_new_task_on_board", user_id, boards[b].project_id, b, 0, 0,
                      data) :
                  b \in {x \in DOMAIN boards : entity_rows < MaxRows},
                  data \in UnassignedTasks}
        \cup {Request("get_task_details", user_id, boards[tasks[t].board_id].project_id,
                      tasks[t].board_id, t, 0, EmptyTable) : t \in DOMAIN tasks}
        \cup {Request("update_task_partial", user_id, boards[tasks[t].board_id].project_id,
                      tasks[t].board_id, t, 0, [status |-> TODO]) : t \in DOMAIN tasks}
        \cup {Request("delete_task_by_id", user_id, boards[tasks[t].board_id].project_id,
                      tasks[t].board_id, t, 0, EmptyTable) : t \in DOMAIN tasks}

\* handlers served one await at a time, one request after another: a user
\* creates a project when there is none, and users send the other requests
NextSteps ==
    \/ /\ entity_rows < MaxRows
       /\ projects = EmptyTable
       /\ \E u \in CurrentUsers : create_new_project(u, DefaultProject, "none")
    \/ \E u \in CurrentUsers :
           \E request \in HandlerRequests(u) : receive(1, request)
    \/ Steps(1)
    \/ send_response

SpecSteps == InitRegistered /\ [][NextSteps]_vars

\* the handlers whose interleavings are explored: membership changes, project
\* deletion, board creation and board update
RaceHandlers ==
    {"add_project_member", "remove_member_from_project", "delete_project_by_id",
     "create_new_board_in_project", "update_board_partial"}

\* the steps of request r of one of these handlers
RaceSteps(r) ==
    \/ load_project(r)
    \/ deny(r)
    \/ allow(r)
    \/ delete_project_by_id_body(r)
    \/ add_project_member_body(r)
    \/ remove_member_from_project_body(r)
    \/ existing_board_query(r)
    \/ insert_board(r)
    \/ update_board_partial_body(r)

\* handlers interleaved at their awaits: up to MaxRequests requests are in the
\* middle of their handler, and the server steps any of them
NextRaces ==
    \/ /\ entity_rows < MaxRows
       /\ projects = EmptyTable
       /\ \E u \in CurrentUsers : create_new_project(u, DefaultProject, "none")
    \/ \E u \in CurrentUsers, r \in RequestIds :
           \E request \in {x \in HandlerRequests(u) : x.op \in RaceHandlers} :
               receive(r, request)
    \/ \E r \in RequestIds : RaceSteps(r)
    \/ send_response

SpecRaces == InitRegistered /\ [][NextRaces]_vars

\* from the empty store: users register and, until MaxRows rows were inserted,
\* create projects, boards in projects and unassigned tasks on boards
NextScenario ==
    \/ \E username \in Usernames, email \in Emails : register_user(username, email, "pw")
    \/ /\ entity_rows < MaxRows
       /\ \/ \E u \in CurrentUsers : create_new_project(u, DefaultProject, "none")
          \/ \E u \in CurrentUsers, p \in DOMAIN projects, data \in DefaultBoards :
                 create_new_board_in_project(u, p, data)
          \/ \E u \in CurrentUsers, b \in DOMAIN boards,
                 data \in {TitleOnlyTask} \cup PrioritizedTasks :
                 create_new_task_on_board(u, boards[b].project_id, b, data)
    \/ send_response

SpecScenario == Init /\ [][NextScenario]_vars

\* ------------------------------------------------------------------ claims
\* the role of the caller's membership row in a project, "none" without a row
RoleIn(project_id, user_id) ==
    IF membership(project_id, user_id) = {} THEN "none"
    ELSE (CHOOSE m \in membership(project_id, user_id) : TRUE).role

\* the owner rows of a project in a project_members table
OwnerRows(table, project_id) ==
    {m \in table : m.project_id = project_id /\ m.role = OWNER}

\* C1: a successful create-project request adds a project that did not exist,
\* and right after it the project's owner rows are exactly one row, the
\* caller's.
C1_CreatorIsSoleOwner ==
    [][(resp'.op = "create_new_project" /\ resp'.status = 201) =>
          /\ resp'.project_id \notin DOMAIN projects
          /\ resp'.project_id \in DOMAIN projects'
          /\ OwnerRows(members', resp'.project_id) =
                 {[project_id |-> resp'.project_id, user_id |-> resp'.user_id,
                   role |-> OWNER]}]_vars

\* a second project has just been created by a user who owns it alone
C1_Witness ==
    /\ resp.op = "create_new_project"
    /\ resp.status = 201
    /\ resp.project_id = 2
    /\ Cardinality(OwnerRows(members, 2)) = 1
    /\ \E m \in members : m.project_id = 2 /\ m.user_id = resp.user_id

\* C2: a create-project request that fails at either insert commits nothing
\* (projects and memberships stay as they were), and every step that adds a
\* project row adds an owner membership row of that project with it.
C2_CreateProjectAllOrNothing ==
    [][/\ (resp'.op = "create_new_project" /\ resp'.status # 201) =>
              (projects' = projects /\ members' = members)
       /\ \A p \in DOMAIN projects' \ DOMAIN projects :
              OwnerRows(members' \ members, p) # {}]_vars

\* the membership insert has just failed after the flush drew project id 1:
\* neither a project 1 nor a membership row of it exists
C2_Witness ==
    /\ resp.op = "create_new_project"
    /\ resp.status = 500
    /\ resp.project_id = 1
    /\ 1 \notin DOMAIN projects
    /\ project_members(1) = {}
    /\ nextProjectId = 2

\* C3: every existing project has at least one member whose role is owner.
C3_EveryProjectHasAnOwner ==
    \A p \in DOMAIN projects : OwnerRows(members, p) # {}

\* the member-list endpoints and update-project
OwnerOnlyOps ==
    {"get_project_members_list", "add_project_member", "remove_member_from_project",
     "update_project_partial"}

\* C5: a list-members, add-member, remove-member or update-project request of
\* a caller without an owner row in the project is refused with 403 and leaves
\* the membership rows and the projects unchanged; such a request that is not
\* refused comes from an owner.
C5_OwnerOnly ==
    [][resp'.op \in OwnerOnlyOps =>
          IF RoleIn(resp'.project_id, resp'.user_id) = OWNER
          THEN resp'.status # 403
          ELSE resp'.status = 403 /\ members' = members /\ projects' = projects]_vars

\* a caller holding the member role has just been refused adding a member
C5_Witness ==
    /\ resp.op = "add_project_member"
    /\ resp.status = 403
    /\ RoleIn(resp.project_id, resp.user_id) = MEMBER

TaskOps == {"get_task_details", "update_task_partial", "delete_task_by_id"}
BoardOps == {"update_board_partial", "delete_board_by_id", "create_new_task_on_board"}
ProjectOps ==
    {"get_project_details", "create_new_board_in_project", "update_project_partial",
     "delete_project_by_id", "get_project_members_list", "add_project_member",
     "remove_member_from_project"}

\* the project that owns what request r acts on: the project of the task's
\* board, the project of the board, or the project itself; 0 when r names a
\* task or board that does not exist
TargetProject(r) ==
    IF r.op \in TaskOps
    THEN IF r.task_id \in DOMAIN tasks /\ tasks[r.task_id].board_id \in DOMAIN boards
         THEN boards[tasks[r.task_id].board_id].project_id ELSE 0
    ELSE IF r.op \in BoardOps
    THEN IF r.board_id \in DOMAIN boards THEN boards[r.board_id].project_id ELSE 0
    ELSE IF r.op \in ProjectOps THEN r.project_id
    ELSE 0

\* C4: a role-gated request on a project, on a board of it or on a task of it,
\* made through a path that names an existing project by a caller who has no
\* membership row in the project that owns the target, is answered 403.
C4_NonMemberIsForbidden ==
    [][(/\ resp'.op \in TaskOps \cup BoardOps \cup ProjectOps
        /\ resp'.project_id \in DOMAIN projects
        /\ TargetProject(resp') \in DOMAIN projects
        /\ membership(TargetProject(resp'), resp'.user_id) = {})
          => resp'.status = 403]_vars

\* C6: a request to read project details or to create, update or delete a
\* board or a task, made through a path that names an existing project by a
\* caller whose membership in the project that owns the target carries the
\* restricted role, is answered 403.
C6_RestrictedRoleIsForbidden ==
    [][(/\ resp'.op \in (TaskOps \cup BoardOps
                           \cup {"get_project_details", "create_new_board_in_project"})
        /\ resp'.project_id \in DOMAIN projects
        /\ TargetProject(resp') \in DOMAIN projects
        /\ RoleIn(TargetProject(resp'), resp'.user_id) = NOT_ACCESSABLE_MEMBER)
          => resp'.status = 403]_vars

\* C8: the assignee of every task that has one is a member of the project
\* that owns the task's board.
C8_AssigneeIsAMember ==
    \A t \in DOMAIN tasks :
        tasks[t].assignee_id # None => tasks[t].assignee_id \in member_ids(tasks[t].board_id)

\* the caller of a task request passes every check that precedes the
\* assignee's: the path project exists and the caller is owner or member of
\* it, the board exists and the caller has a row in the board's project
PassesTaskChecks(r) ==
    /\ r.project_id \in DOMAIN projects
    /\ ~must_be_owner_or_member(r.project_id, r.user_id)
    /\ r.board_id \in DOMAIN boards
    /\ r.user_id \in member_ids(r.board_id)

\* C9: a create-task request that names an assignee who is not in the member
\* list of the board's project (and whose caller is let through) is answered
\* 409 and creates no task.
C9_NonMemberAssigneeConflicts ==
    [][(/\ resp'.op = "create_new_task_on_board"
        /\ PassesTaskChecks(resp')
        /\ resp'.assignee_id # None
        /\ resp'.assignee_id \notin member_ids(resp'.board_id))
          => (resp'.status = 409 /\ tasks' = tasks)]_vars

\* C10: a task update that sets the assignee to an existing user who is not a
\* member of the task's project (and whose caller is let through) is answered
\* 409 and leaves the task unchanged.
C10_UpdateValidatesAssignee ==
    [][(/\ resp'.op = "update_task_partial"
        /\ PassesTaskChecks(resp')
        /\ resp'.task_id \in DOMAIN tasks
        /\ resp'.assignee_id \in DOMAIN users
        /\ resp'.assignee_id \notin member_ids(tasks[resp'.task_id].board_id))
          => (resp'.status = 409 /\ tasks' = tasks)]_vars

\* C11: every membership row and every board refers to an existing project,
\* and every task to an existing board: nothing of a deleted project remains.
C11_NothingOutlivesItsProject ==
    /\ \A m \in members : m.project_id \in DOMAIN projects
    /\ \A b \in DOMAIN boards : boards[b].project_id \in DOMAIN projects
    /\ \A t \in DOMAIN tasks : tasks[t].board_id \in DOMAIN boards

\* project 1, which held board 1 and task 1, has just been deleted by its
\* owner and no row is left
C11_Witness ==
    /\ resp.op = "delete_project_by_id"
    /\ resp.status = 204
    /\ resp.project_id = 1
    /\ nextProjectId = 2
    /\ nextBoardId = 2
    /\ nextTaskId = 2
    /\ members = {}
    /\ boards = EmptyTable
    /\ tasks = EmptyTable

\* C12: no two membership rows share a (project, user) pair, and an
\* add-member request naming a user who already has a row in the project
\* leaves the membership rows as they were.
C12_OneRowPerProjectAndUser ==
    /\ [](\A m1, m2 \in members :
              (m1.project_id = m2.project_id /\ m1.user_id = m2.user_id) => m1 = m2)
    /\ [][\A m \in UserIds, role \in MemberRole :
              (/\ resp'.op = "add_project_member"
               /\ add_project_member(resp'.user_id, resp'.project_id, m, role)
               /\ project_member_exists(resp'.project_id, m))
                  => members' = members]_vars

\* an owner has just tried to add a user who already has a row in the project
C12_Witness ==
    /\ resp.op = "add_project_member"
    /\ resp.status = 500
    /\ Cardinality(project_members(resp.project_id)) = 2

\* C13: a create-board request (of a caller who may create boards) whose title
\* a board of the project already has adds no board, one whose title only
\* boards of other projects have adds the board, and no two boards of one
\* project ever share a title.
C13_TitlesUniquePerProject ==
    /\ [](\A b1, b2 \in DOMAIN boards :
              (boards[b1].project_id = boards[b2].project_id
                   /\ boards[b1].title = boards[b2].title) => b1 = b2)
    /\ [][\A u \in UserIds, p \in ProjectIds, data \in BoardCreate :
              (/\ create_new_board_in_project(u, p, data)
               /\ get_project_with_details(p)
               /\ ~must_be_owner_or_member(p, u))
                  => IF \E b \in DOMAIN boards :
                            boards[b].project_id = p /\ boards[b].title = data.title
                     THEN boards' = boards
                     ELSE DOMAIN boards' # DOMAIN boards]_vars

\* the row after a partial update: every field the body supplies has the
\* body's value and every other field the value it had
ExactlySupplied(before, after, data) ==
    /\ DOMAIN after = DOMAIN before
    /\ \A f \in DOMAIN before :
           after[f] = IF f \in DOMAIN data THEN data[f] ELSE before[f]

\* the table after a partial update of row id: the same rows, only row id
\* changed
OnlyRowChanged(before, after, id) ==
    /\ DOMAIN after = DOMAIN before
    /\ \A x \in DOMAIN before \ {id} : after[x] = before[x]

UpdateOps == {"update_project_partial", "update_board_partial", "update_task_partial"}

EmptyFieldSet == [x \in {} |-> 0]

\* C15: an update with an empty field set of an existing project, board or
\* task, by a caller allowed to update it, is answered 200 (the current state)
\* and changes nothing.
C15_EmptyUpdateReturnsCurrentState ==
    [][/\ (/\ update_project_partial(resp'.user_id, resp'.project_id, EmptyFieldSet)
            /\ ~not_enough_permissions(resp'.project_id, resp'.user_id))
              => (resp'.status = 200 /\ UNCHANGED store)
       /\ (/\ update_board_partial(resp'.user_id, resp'.project_id, resp'.board_id,
                                   EmptyFieldSet)
            /\ get_project_with_details(resp'.project_id)
            /\ ~must_be_owner_or_member(resp'.project_id, resp'.user_id)
            /\ get_board_by_id(resp'.board_id))
              => (resp'.status = 200 /\ UNCHANGED store)
       /\ (/\ update_task_partial(resp'.user_id, resp'.project_id, resp'.board_id,
                                  resp'.task_id, EmptyFieldSet)
            /\ get_project_with_details(resp'.project_id)
            /\ ~must_be_owner_or_member(resp'.project_id, resp'.user_id)
            /\ get_board_by_id(resp'.board_id)
            /\ get_task_by_id(resp'.task_id))
              => (resp'.status = 200 /\ UNCHANGED store)]_vars

C17_DuplicateRegistrationConflicts ==
    /\ [](\A u1, u2 \in DOMAIN users :
              (users[u1].username = users[u2].username \/ users[u1].email = users[u2].email)
                  => u1 = u2)
    /\ [][\A username \in Usernames, email \in Emails, password \in Passwords :
              (/\ register_user(username, email, password)
               /\ \E u \in DOMAIN users :
                      users[u].username = username \/ users[u].email = email)
                  => (resp'.status = 409 /\ users' = users)]_vars

\* the endpoints whose path names a project, a board, a task
ProjectPathOps ==
    {"get_project_details", "update_project_partial", "delete_project_by_id",
     "get_project_members_list", "add_project_member", "remove_member_from_project",
     "create_new_board_in_project", "update_board_partial", "delete_board_by_id",
     "create_new_task_on_board", "get_task_details", "update_task_partial",
     "delete_task_by_id"}
BoardPathOps ==
    {"update_board_partial", "delete_board_by_id", "create_new_task_on_board",
     "get_task_details", "update_task_partial", "delete_task_by_id"}
TaskPathOps == {"get_task_details", "update_task_partial", "delete_task_by_id"}

\* C18: a request whose path names a project that does not exist is answered
\* 404, and so is a request of a caller with the owner or member role in the
\* path's project that names a board or a task that does not exist.
C18_MissingIdIsNotFound ==
    [][/\ (resp'.op \in ProjectPathOps /\ resp'.project_id \notin DOMAIN projects)
              => resp'.status = 404
       /\ (/\ resp'.op \in BoardPathOps
            /\ resp'.project_id \in DOMAIN projects
            /\ ~must_be_owner_or_member(resp'.project_id, resp'.user_id)
            /\ resp'.board_id \notin DOMAIN boards)
              => resp'.status = 404
       /\ (/\ resp'.op \in TaskPathOps
            /\ resp'.project_id \in DOMAIN projects
            /\ ~must_be_owner_or_member(resp'.project_id, resp'.user_id)
            /\ resp'.board_id \in DOMAIN boards
            /\ resp'.task_id \notin DOMAIN tasks)
              => resp'.status = 404]_vars

\* C19: an owner's add-member request naming a user who already has a row in
\* the project, and a create-board request of an owner or member whose title
\* a board of the project already has, are answered 409.
C19_UniquenessViolationConflicts ==
    [][/\ \A m \in UserIds, role \in MemberRole :
              (/\ add_project_member(resp'.user_id, resp'.project_id, m, role)
               /\ ~not_enough_permissions(resp'.project_id, resp'.user_id)
               /\ \E x \in members : x.project_id = resp'.project_id /\ x.user_id = m)
                  => resp'.status = 409
       /\ \A data \in BoardCreate :
              (/\ create_new_board_in_project(resp'.user_id, resp'.project_id, data)
               /\ get_project_with_details(resp'.project_id)
               /\ ~must_be_owner_or_member(resp'.project_id, resp'.user_id)
               /\ \E b \in DOMAIN boards :
                      boards[b].project_id = resp'.project_id /\ boards[b].title = data.title)
                  => resp'.status = 409]_vars

\* a token the claim names: absent, forged, expired, without a subject, or
\* with a subject no user has as email
RejectedToken(token) ==
    \/ ~token.present
    \/ token.signature = "invalid"
    \/ token.exp = "past"
    \/ token.sub = None
    \/ \A u \in DOMAIN users : users[u].email # token.sub

\* C20: a request to any endpoint other than registration and login that
\* carries no token, a forged or expired token, a token without a subject, or
\* a token naming a subject no user has, is answered 401 and leaves every
\* table and every id sequence as it was: a step is answered 401 without a
\* change, or it is the request of no such token.
C20_RejectedTokenIsUnauthorized ==
    [][\/ resp'.status = 401 /\ UNCHANGED <<store, seqs>>
       \/ \A token \in Tokens : ~(RejectedToken(token) /\ AuthenticatedRequests(token))]_vars

\* C20 witness: a delete-project request was answered 401 while a project,
\* its owner row and a board exist
C20_Witness ==
    /\ resp.op = "delete_project_by_id"
    /\ resp.status = 401
    /\ DOMAIN projects # {}
    /\ members # {}
    /\ DOMAIN boards # {}

\* C21: a login request is answered 200 with a token exactly when some user
\* has the given email and a stored hash that is the hash of the given
\* password, and 401 without a token otherwise; the token of a successful
\* login, presented before it expires, resolves to the user who logged in.
C21_LoginIssuesTokenOfTheUser ==
    [][\A email \in Emails, password \in Passwords :
           login_for_access_token(email, password) =>
               LET matching == {u \in DOMAIN users :
                                    /\ users[u].email = email
                                    /\ users[u].password_hash = hash_password(password)}
                   token == access_token(email, password)
               IN  IF matching # {}
                   THEN /\ resp'.status = 200
                        /\ token.present
                        /\ matching = {get_current_user(token)}
                        /\ resp'.user_id = get_current_user(token)
                   ELSE /\ resp'.status = 401
                        /\ ~token.present]_vars

\* C21 witness: with two users registered, the second has just logged in
C21_Witness ==
    /\ resp.op = "login_for_access_token"
    /\ resp.status = 200
    /\ resp.user_id = 2
    /\ DOMAIN users = {1, 2}

\* the token identifier among the claims, None when there is none
token_identifier(claims) == IF "jti" \in DOMAIN claims THEN claims.jti ELSE None

\* C22: the token of every successful login carries a token identifier and an
\* expiry equal to the minute of issue plus the configured lifetime, and the
\* tokens of two logins (of different users or at different minutes) carry
\* different identifiers.
C22_TokensCarryUniqueIdAndExpiry ==
    [][(resp'.op = "login_for_access_token" /\ resp'.status = 200) =>
           \A now \in IssueTimes, ttl \in ExpireMinutes :
               LET claims == access_token_claims(resp'.user_id, ttl, now)
               IN  /\ token_identifier(claims) # None
                   /\ claims.exp = now + ttl
                   /\ \A other \in DOMAIN users, earlier \in IssueTimes :
                          (other # resp'.user_id \/ earlier # now) =>
                              token_identifier(access_token_claims(other, ttl, earlier))
                                  # token_identifier(claims)]_vars

\* the steps of a request that has reached its handler's body, and the handlers
\* that return details
AuthorizedSteps == <<"identity", "membership", "decision">>
DetailReads == {"get_project_details", "get_task_details"}

\* C23: a request that names a project takes its steps in the order identity,
\* membership load, authorization decision; a step that writes to the store
\* or draws an id, or that returns details, is taken by a request that has
\* taken all three and whose loaded project and role pass its handler's check
\* (creating a project names no project and has no check).
C23_AuthorizationPrecedesTheOperation ==
    /\ [](\A r \in DOMAIN inflight :
              \/ inflight[r].pc = "identified" /\ inflight[r].steps = <<"identity">>
              \/ inflight[r].pc = "loaded"
                     /\ inflight[r].steps = <<"identity", "membership">>
              \/ inflight[r].pc \in {"allowed", "checked"}
                     /\ inflight[r].steps = AuthorizedSteps
                     /\ raised(inflight[r]) = 0)
    /\ [][(\/ store' # store
           \/ seqs' # seqs
           \/ resp'.op \in DetailReads /\ resp'.status = 200)
              => \/ resp'.op = "create_new_project"
                 \/ \E r \in DOMAIN inflight \ DOMAIN inflight' :
                        /\ inflight[r].op = resp'.op
                        /\ inflight[r].steps = AuthorizedSteps
                        /\ inflight[r].project
                        /\ inflight[r].role \in {OWNER, MEMBER}
                        /\ inflight[r].op \in OwnerHandlers => inflight[r].role = OWNER]_vars

\* C23 witness: a member who is not the owner has just deleted a board
C23_Witness ==
    /\ resp.op = "delete_board_by_id"
    /\ resp.status = 204
    /\ \E m \in members :
           m.project_id = resp.project_id /\ m.user_id = resp.user_id /\ m.role = MEMBER


\* C24: a board or task request that succeeds acts on a row of the parents
\* named in its path: an updated or deleted board belongs to the path's
\* project, a read, updated or deleted task belongs to the path's board and
\* that board to the path's project; and the caller is an owner or a member
\* of the project that owns the row.
C24_ScopedToTheParentInThePath ==
    [][(/\ resp'.op \in TaskOps \cup {"update_board_partial", "delete_board_by_id"}
        /\ resp'.status \in {200, 204})
          => /\ TargetProject(resp') = resp'.project_id
             /\ resp'.op \in TaskOps => tasks[resp'.task_id].board_id = resp'.board_id
             /\ RoleIn(TargetProject(resp'), resp'.user_id) \in {OWNER, MEMBER}]_vars


\* C25: without storage faults, a registration with a username and an email
\* no user has is answered 201; a registered user's create-project is
\* answered 201 and leaves the user with the owner row of the new project; the
\* owner's create-board with a title new to the project is answered 201 and
\* adds the board to the project; and the owner's create-task on such a board
\* with a body that names only the title is answered 201 and adds to the board
\* a task with status todo, priority medium and no assignee.
C25_ScenarioSucceeds ==
    [][/\ \A username \in Usernames, email \in Emails :
              (/\ resp'.op = "register_user"
               /\ register_user(username, email, "pw")
               /\ ~create_user_violates_unique(username, email))
                 => resp'.status = 201 /\ resp'.user_id \in DOMAIN users' \ DOMAIN users
       /\ (resp'.op = "create_new_project" /\ resp'.user_id \in DOMAIN users)
              => /\ resp'.status = 201
                 /\ resp'.project_id \in DOMAIN projects' \ DOMAIN projects
                 /\ [project_id |-> resp'.project_id, user_id |-> resp'.user_id,
                     role |-> OWNER] \in members'
       /\ \A data \in DefaultBoards :
              (/\ resp'.op = "create_new_board_in_project"
               /\ create_new_board_in_project(resp'.user_id, resp'.project_id, data)
               /\ RoleIn(resp'.project_id, resp'.user_id) = OWNER
               /\ ~board_title_exists(resp'.project_id, data.title))
                 => /\ resp'.status = 201
                    /\ resp'.board_id \in DOMAIN boards' \ DOMAIN boards
                    /\ boards'[resp'.board_id].project_id = resp'.project_id
                    /\ boards'[resp'.board_id].title = data.title
       /\ (/\ resp'.op = "create_new_task_on_board"
           /\ create_new_task_on_board(resp'.user_id, resp'.project_id, resp'.board_id,
                                       TitleOnlyTask)
           /\ resp'.board_id \in DOMAIN boards
           /\ boards[resp'.board_id].project_id = resp'.project_id
           /\ RoleIn(resp'.project_id, resp'.user_id) = OWNER)
              => /\ resp'.status = 201
                 /\ resp'.task_id \in DOMAIN tasks' \ DOMAIN tasks
                 /\ tasks'[resp'.task_id] =
                        [board_id |-> resp'.board_id, assignee_id |-> None,
                         status |-> TODO, priority |-> MEDIUM]]_vars

\* the second registered user owns project 1 and has just created an
\* unassigned task with the default status and priority on board 1 of it
C25_Witness ==
    /\ resp.op = "create_new_task_on_board"
    /\ resp.status = 201
    /\ resp.user_id = 2
    /\ RoleIn(resp.project_id, resp.user_id) = OWNER
    /\ boards[resp.board_id].project_id = resp.project_id
    /\ boards[resp.board_id].title = "Backlog"
    /\ tasks[resp.task_id].board_id = resp.board_id
    /\ tasks[resp.task_id].assignee_id = None
    /\ tasks[resp.task_id].status = TODO
    /\ tasks[resp.task_id].priority = MEDIUM


\* C26: a registration with a username and an email that no user has is
\* answered 201 and adds exactly one row to the users table, leaving the other
\* rows as they were; the row has no password column, its password_hash is
\* the hash of the submitted password, and the returned UserRead has neither
\* a password nor a password_hash field.
C26_RegistrationStoresOnlyTheHash ==
    [][\A username \in Usernames, email \in Emails, password \in Passwords :
           (/\ resp'.op = "register_user"
            /\ register_user(username, email, password)
            /\ ~create_user_violates_unique(username, email))
              => /\ resp'.status = 201
                 /\ DOMAIN users' = DOMAIN users \cup {resp'.user_id}
                 /\ resp'.user_id \notin DOMAIN users
                 /\ \A u \in DOMAIN users : users'[u] = users[u]
                 /\ DOMAIN users'[resp'.user_id] = {"username", "email", "password_hash"}
                 /\ users'[resp'.user_id].username = username
                 /\ users'[resp'.user_id].email = email
                 /\ users'[resp'.user_id].password_hash = hash_password(password)
                 /\ verify_password(password, users'[resp'.user_id].password_hash)
                 /\ DOMAIN UserRead(resp'.user_id, users'[resp'.user_id])
                        = {"id", "username", "email"}]_vars

\* a second user has just registered with password "pw2": its row holds the
\* hash of that password and the first user's row is still there
C26_Witness ==
    /\ resp.op = "register_user"
    /\ resp.status = 201
    /\ resp.user_id = 2
    /\ DOMAIN users = {1, 2}
    /\ users[2].password_hash = hash_password("pw2")
    /\ "password_hash" \notin DOMAIN UserRead(2, users[2])


\* C27: a create-board request never adds a board whose title a board of the
\* same project already has, also when another create-board request with that
\* title ran its existence check before the insert.
C27_ConcurrentCreationsKeepTitlesUnique ==
    [][\A b \in DOMAIN boards' \ DOMAIN boards :
           ~board_title_exists(boards'[b].project_id, boards'[b].title)]_vars


\* C28: every step in which a request of a role-checked handler changes the
\* store is taken while the project it names exists and the caller holds, in
\* the store as it is at that step, a role the handler admits (owner for the
\* owner handlers, owner or member for the others).
C28_WritesNeedTheRoleAtCommit ==
    [][\A r \in DOMAIN inflight \ DOMAIN inflight' :
           store' # store
               => /\ get_project_with_details(inflight[r].project_id)
                  /\ RoleIn(inflight[r].project_id, inflight[r].user_id) \in {OWNER, MEMBER}
                  /\ inflight[r].op \in OwnerHandlers
                         => RoleIn(inflight[r].project_id, inflight[r].user_id) = OWNER]_vars


\* C29: a request answered 401, 403, 404 or 409 leaves the users, projects,
\* memberships, boards and tasks tables exactly as they were, whatever it
\* names: a user, project, board or task id without a row included.
C29_ErrorsLeaveTheStore ==
    [][resp'.status \in {401, 403, 404, 409} => store' = store]_vars

\* the owner of a project that holds a board has just been refused (404) the
\* update of a board id that has no row
C29_Witness ==
    /\ resp.op = "update_board_partial"
    /\ resp.status = 404
    /\ RoleIn(resp.project_id, resp.user_id) = OWNER
    /\ resp.board_id \notin DOMAIN boards
    /\ boards_of({resp.project_id}) # {}


\* the projects that exist and in which the user has a membership row
ProjectsOfMember(user_id) ==
    {p \in DOMAIN projects : membership(p, user_id) # {}}

\* C30: the project list of every user holds each existing project in which
\* the user has a membership row, of any role, exactly once, and nothing else;
\* a project is in the creator's list right after its creation and in a
\* user's list right after the user was added to it, and it is in nobody's
\* list after its deletion and not in a user's list after the user's removal.
C30_ProjectListIsTheMemberships ==
    /\ [](\A u \in UserIds :
              /\ DOMAIN get_projects_for_user(u) = ProjectsOfMember(u)
              /\ \A p \in DOMAIN get_projects_for_user(u) : get_projects_for_user(u)[p] = 1)
    /\ [][/\ \A u \in UserIds :
                 (resp'.op = "create_new_project" /\ resp'.status = 201
                      /\ resp'.user_id = u)
                     => resp'.project_id \in DOMAIN get_projects_for_user(u)'
          /\ \A m \in members' \ members :
                 m.project_id \in DOMAIN get_projects_for_user(m.user_id)'
          /\ \A m \in members \ members' :
                 m.project_id \notin DOMAIN get_projects_for_user(m.user_id)'
          /\ \A p \in DOMAIN projects \ DOMAIN projects', u \in UserIds :
                 p \notin DOMAIN get_projects_for_user(u)']_vars

\* a user lists its projects while holding the restricted role in a project
\* that another user owns: the list holds that project
C30_Witness ==
    /\ resp.op = "get_user_projects"
    /\ resp.status = 200
    /\ \E p \in DOMAIN get_projects_for_user(resp.user_id) :
           RoleIn(p, resp.user_id) = NOT_ACCESSABLE_MEMBER

====
